---- MODULE Spec2Model ----
(***************************************************************************)
(* The real-time event relay of src/src/sse.py: the upstream callback, the *)
(* dedup cache, the client registry, the fan-out and the per-connection    *)
(* stream handler, run on one cooperative asyncio event loop.              *)
(*                                                                         *)
(* A step of the model is what one task does between two suspensions.      *)
(* `await queue.put(x)` on an unbounded asyncio.Queue never suspends, so   *)
(* handle_realtime_event, the body of sse_stream and the fan-out loop of   *)
(* post_message each run as one step.  The stream handler suspends in      *)
(* `await request.is_disconnected()`, in `await queue.get()` on an empty   *)
(* queue, and at `yield`.                                                  *)
(***************************************************************************)
EXTENDS Integers, Sequences, FiniteSets, TLC

\* ------------------------------------------------------------------ bounds
\* Client connections opened in a run of Spec.
MaxClients == 2
\* Distinct identifiers the upstream source emits in a run of Spec.
MaxIds == 2
\* handle_realtime_event tasks created and not yet run.
MaxPending == 2
\* Administrative injections in a run of Spec.
MaxInject == 1
\* Distinct identifiers emitted in a run of SpecCache (beyond the cache limit).
MaxCacheIds == 1002
\* Connections in the registries SpecDereg starts from.
MaxDeregClients == 5

\* -------------------------------------------------------- program constants
\* `if len(recent_event_ids) > 1000`
CacheLimit == 1000
\* the default of payload.get('ids', [None]): the identifier None
NoneId == 0

Clients == 1..MaxClients

VARIABLES
    connected_clients,  \* the registry: the list of the clients' queues, by identity
    recent_event_ids,   \* the dedup cache
    queue,              \* queue[c]: the asyncio.Queue of connection c, head first
    pc,                 \* pc[c]: where connection c's request task is
    disconnected,       \* disconnected[c]: the transport's peer is gone
    written,            \* written[c]: the payloads the generator has yielded, in order
    tasks,              \* handle_realtime_event tasks created by sync_callback, FIFO
    nextId,             \* the number of distinct identifiers the upstream has emitted
    injected,           \* the number of post_message calls so far
    removeRaised,       \* connected_clients.remove raised ValueError
    \* history, read by the properties only
    nBroadcast,         \* the number of broadcasts performed so far
    sent,               \* sent[c]: the payloads broadcast while c was in the registry
    lastOutcome,        \* how the latest handle_realtime_event task ended
    regMark,            \* regMark[c]: nBroadcast when c registered
    removeCalls,        \* removeCalls[c]: calls of connected_clients.remove(queue of c)
    exitPath,           \* exitPath[c]: how c's generator left its loop
    \* the double deregistration of SpecDereg
    deregInit,          \* the registry before the first deregistration
    deregTarget,        \* the connection deregistered twice
    deregPhase,         \* the number of deregistrations done
    deregFirst,         \* the registry after the first deregistration
    \* the upstream channel and its status checker
    channel_joined,     \* channel.is_joined
    lastCheck,          \* what the latest pass of check_channel_status found
    lastComplete,       \* the latest handled notification had every indexed key
    \* get_supabase_client
    env_url,            \* SUPABASE_PROJECT_URL in the environment
    env_key,            \* SUPABASE_SERVICE_ROLE_KEY in the environment
    clientModule,       \* the module whose get_supabase_client is called
    clientPc,           \* where the call of get_supabase_client is
    clientResult        \* what the call gave

vars == <<connected_clients, recent_event_ids, queue, pc, disconnected, written, tasks,
          nextId, injected, removeRaised, nBroadcast, sent, lastOutcome, regMark,
          removeCalls, exitPath, deregInit, deregTarget, deregPhase, deregFirst,
          channel_joined, lastCheck, lastComplete, env_url, env_key, clientModule,
          clientPc, clientResult>>

deregVars == <<deregInit, deregTarget, deregPhase, deregFirst>>

chanVars == <<channel_joined, lastCheck>>

clientVars == <<env_url, env_key, clientModule, clientPc, clientResult>>

\* ------------------------------------------------------------------ values
Range(s) == {s[i] : i \in DOMAIN s}

InList(list, x) == \E i \in DOMAIN list : list[i] = x

\* A serialized payload as it sits in a queue: the "test" acknowledgment, the
\* json.dumps of a change event, or an injected message.
Payload(kind, type, record, timestamp, text) ==
    [kind |-> kind, type |-> type, record |-> record, timestamp |-> timestamp, text |-> text]

\* json.dumps({"type": "test", "message": "SSE connection established"})
AckPayload == Payload("test", "test", "absent", 0, "SSE connection established")

MessagePayloadNull(m) == Payload("message", "", "absent", 0, "null")

\* The message of a POST body, put in the queues as it is.
MessagePayload(m) == Payload("message", "", "absent", 0, m)

\* A dict value is "absent" (no such key), "null" (None), "{}" (the empty mapping)
\* or a non-empty row.  Python's `x or y` takes y when x is falsy.
Falsy(v) == v \in {"absent", "null", "{}"}

\* dict.get(key): None for a missing key
DictGet(v) == IF v = "absent" THEN "null" ELSE v

PyOr(a, b) == IF Falsy(a) THEN b ELSE a

\* An upstream notification: {data: {type, table, schema, record?, old_record?,
\* commit_timestamp}, ids: [...]}.  hasIds: the key 'ids' is present; complete: the
\* keys handle_realtime_event indexes (data, type, table, schema, commit_timestamp)
\* are all present.
Notification(hasIds, ids, complete, type, record, old_record, ts) ==
    [hasIds |-> hasIds, ids |-> ids, complete |-> complete, type |-> type,
     record |-> record, old_record |-> old_record, commit_timestamp |-> ts]

\* The data of a well-formed INSERT notification.
InsertShapes == { [type |-> "INSERT", record |-> "row", old_record |-> "absent"] }

\* ------------------------------------------------- handle_realtime_event
\* payload.get('ids', [None])[0] raises IndexError on an empty list.
EventIdRaises(payload) == payload.hasIds /\ payload.ids = <<>>

EventIdPerChange(payload) ==
    IF payload.hasIds THEN payload.ids[1] ELSE CacheLimit + payload.commit_timestamp

EventId(payload) == IF payload.hasIds THEN payload.ids[1] ELSE NoneId

DataRaisesNever(payload) == FALSE

\* payload["data"]["type"] and the other indexings of lines 86-92 raise KeyError
\* when a key is missing.
DataRaises(payload) == ~payload.complete

IsDuplicateAlwaysNew(event_id, cache) == FALSE

\* `if event_id in recent_event_ids`
IsDuplicate(event_id, cache) == event_id \in cache

AddRecentNoClear(cache, event_id) == cache \cup {event_id}

\* recent_event_ids.add(event_id), then clear() when the length exceeds the limit
AddRecent(cache, event_id) ==
    LET added == cache \cup {event_id}
    IN  IF Cardinality(added) > CacheLimit THEN {} ELSE added

CacheUntouched(cache, event_id) == cache

\* The cache when lines 86-92 raise: line 81 has already added the identifier.
CacheAfterKeyError(cache, event_id) == AddRecent(cache, event_id)

\* The json.dumps of lines 86-92.
EventData(payload) ==
    Payload("event", payload.type,
            PyOr(DictGet(payload.record), DictGet(payload.old_record)),
            payload.commit_timestamp, "")

QueueFullAtTwo(q) == Len(q) >= 2

\* asyncio.Queue.full(): the queues are made by asyncio.Queue() (line 153), with
\* maxsize 0, so a queue is never full and `await queue.put(...)` never waits.
QueueFull(q) == FALSE

\* No put of a fan-out over the registry has to wait.
NoPutWaits(queues, list) == \A i \in DOMAIN list : ~QueueFull(queues[list[i]])

\* asyncio.Queue.put on an unbounded queue
QueuePut(q, item) == Append(q, item)

FanOutEveryQueue(queues, list, item) ==
    [c \in DOMAIN queues |-> Append(queues[c], item)]

FanOutFirstOnly(queues, list, item) ==
    IF list = <<>> THEN queues
    ELSE [queues EXCEPT ![Head(list)] = Append(@, item)]

RECURSIVE FanOutSkipLast(_, _, _)
FanOutSkipLast(queues, list, item) ==
    IF Len(list) <= 1 THEN queues
    ELSE FanOutSkipLast([queues EXCEPT ![Head(list)] = QueuePut(@, item)], Tail(list), item)

\* `for queue in connected_clients: await queue.put(item)`
RECURSIVE FanOut(_, _, _)
FanOut(queues, list, item) ==
    IF list = <<>> THEN queues
    ELSE FanOut([queues EXCEPT ![Head(list)] = QueuePut(@, item)], Tail(list), item)

\* ------------------------------------------------- connected_clients.remove
RemoveHead(list, x) == IF list = <<>> THEN <<>> ELSE Tail(list)

RECURSIVE RemoveFirst(_, _)
RemoveFirst(list, x) ==
    IF list = <<>> THEN <<>>
    ELSE IF Head(list) = x THEN Tail(list)
    ELSE <<Head(list)>> \o RemoveFirst(Tail(list), x)

\* list.remove(x): drops the first occurrence; ValueError when there is none.
ListRemove(list, x) ==
    IF InList(list, x) THEN [list |-> RemoveFirst(list, x), raised |-> FALSE]
    ELSE [list |-> list, raised |-> TRUE]

\* ------------------------------------------------------------------- Init
Init ==
    /\ connected_clients = <<>>
    /\ recent_event_ids = {}
    /\ queue = [c \in Clients |-> <<>>]
    /\ pc = [c \in Clients |-> "idle"]
    /\ disconnected = [c \in Clients |-> FALSE]
    /\ written = [c \in Clients |-> <<>>]
    /\ tasks = <<>>
    /\ nextId = 0
    /\ injected = 0
    /\ removeRaised = FALSE
    /\ nBroadcast = 0
    /\ sent = [c \in Clients |-> <<>>]
    /\ lastOutcome = "none"
    /\ regMark = [c \in Clients |-> 0]
    /\ removeCalls = [c \in Clients |-> 0]
    /\ exitPath = [c \in Clients |-> "none"]
    /\ deregInit = <<>>
    /\ deregTarget = 0
    /\ deregPhase = 0
    /\ deregFirst = <<>>
    /\ channel_joined = TRUE
    /\ lastCheck = "none"
    /\ lastComplete = TRUE
    /\ env_url = "unset"
    /\ env_key = "unset"
    /\ clientModule = "none"
    /\ clientPc = "idle"
    /\ clientResult = "none"


\* ------------------------------------------------ upstream and its callback
\* The identifiers a notification may carry: a fresh one, or one of the last
\* `window` emitted (the upstream may emit the same event more than once).
RepeatIds(window) == {i \in 1..nextId : i > nextId - window}

\* sync_callback(payload): asyncio.create_task(handle_realtime_event(payload)).
\* The event loop runs the tasks in the order of their creation.
sync_callback(maxIds, maxPending, window, shapes) ==
    /\ Len(tasks) < maxPending
    /\ \E shape \in shapes :
         \/ /\ nextId < maxIds
            /\ nextId' = nextId + 1
            /\ tasks' = Append(tasks, Notification(TRUE, <<nextId + 1>>, TRUE, shape.type,
                                   shape.record, shape.old_record, nextId + 1))
         \/ \E i \in RepeatIds(window) :
              /\ nextId' = nextId
              /\ tasks' = Append(tasks, Notification(TRUE, <<i>>, TRUE, shape.type,
                                     shape.record, shape.old_record, i))
    /\ UNCHANGED <<connected_clients, recent_event_ids, queue, pc, disconnected,
                   written, injected, removeRaised, nBroadcast, sent, lastOutcome,
                   regMark, removeCalls, exitPath, deregVars, chanVars,
                   clientVars, lastComplete>>

\* A notification in one of the forms the upstream can hand to the callback.
\* ids: "one" (a one-element list), "absent" (no key 'ids'), "empty" (ids = []).
Form(ids, complete, type, record, old_record) ==
    [ids |-> ids, complete |-> complete, type |-> type, record |-> record,
     old_record |-> old_record]

\* The well-formed INSERT, the same with a key of 'data' missing, without the
\* key 'ids', and with an empty 'ids' list.
MalformedForms ==
    { Form("one", TRUE, "INSERT", "row", "absent"),
      Form("one", FALSE, "INSERT", "row", "absent"),
      Form("absent", TRUE, "INSERT", "row", "absent"),
      Form("empty", TRUE, "INSERT", "row", "absent") }

\* The well-formed INSERT with one identifier, without the key 'ids', and with
\* an empty 'ids' list.
IdentifierForms ==
    { Form("one", TRUE, "INSERT", "row", "absent"),
      Form("absent", TRUE, "INSERT", "row", "absent"),
      Form("empty", TRUE, "INSERT", "row", "absent") }

\* Well-formed notifications by what their record and old_record hold: an INSERT,
\* a DELETE with only the old row, a DELETE whose record is null, an UPDATE with
\* both rows, an UPDATE whose record is the empty mapping.
RecordForms ==
    { Form("one", TRUE, "INSERT", "row", "absent"),
      Form("one", TRUE, "DELETE", "absent", "oldrow"),
      Form("one", TRUE, "DELETE", "null", "oldrow"),
      Form("one", TRUE, "UPDATE", "row", "oldrow"),
      Form("one", TRUE, "UPDATE", "{}", "oldrow") }

\* The notification of change i in the given form.
FormNotification(form, i) ==
    Notification(form.ids # "absent", IF form.ids = "one" THEN <<i>> ELSE <<>>,
                 form.complete, form.type, form.record, form.old_record, i)

\* sync_callback(payload) for any notification: the upstream reports a new change,
\* or reports one of the last `window` changes again, in any form.
sync_callback_any(maxChanges, maxPending, window, forms) ==
    /\ Len(tasks) < maxPending
    /\ \E form \in forms :
         \/ /\ nextId < maxChanges
            /\ nextId' = nextId + 1
            /\ tasks' = Append(tasks, FormNotification(form, nextId + 1))
         \/ \E i \in RepeatIds(window) :
              /\ nextId' = nextId
              /\ tasks' = Append(tasks, FormNotification(form, i))
    /\ UNCHANGED <<connected_clients, recent_event_ids, queue, pc, disconnected,
                   written, injected, removeRaised, nBroadcast, sent, lastOutcome,
                   regMark, removeCalls, exitPath, deregVars, chanVars,
                   clientVars, lastComplete>>

\* One handle_realtime_event task, from its first line to its return: nothing in
\* it suspends.
handle_realtime_event ==
    /\ tasks # <<>>
    /\ LET payload == Head(tasks)
           event_id == EventId(payload)
       IN  /\ tasks' = Tail(tasks)
           /\ \/ \* IndexError in line 75, caught in line 98
                 /\ EventIdRaises(payload)
                 /\ lastOutcome' = "error"
                 /\ UNCHANGED <<recent_event_ids, queue, nBroadcast, sent>>
              \/ \* a duplicate: return
                 /\ ~EventIdRaises(payload)
                 /\ IsDuplicate(event_id, recent_event_ids)
                 /\ lastOutcome' = "duplicate"
                 /\ UNCHANGED <<recent_event_ids, queue, nBroadcast, sent>>
              \/ \* KeyError in lines 86-92, after the identifier was recorded
                 /\ ~EventIdRaises(payload)
                 /\ ~IsDuplicate(event_id, recent_event_ids)
                 /\ DataRaises(payload)
                 /\ recent_event_ids' = CacheAfterKeyError(recent_event_ids, event_id)
                 /\ lastOutcome' = "error"
                 /\ UNCHANGED <<queue, nBroadcast, sent>>
              \/ \* accepted: serialized once, put in every registered queue
                 /\ ~EventIdRaises(payload)
                 /\ ~IsDuplicate(event_id, recent_event_ids)
                 /\ ~DataRaises(payload)
                 /\ NoPutWaits(queue, connected_clients)
                 /\ recent_event_ids' = AddRecent(recent_event_ids, event_id)
                 /\ queue' = FanOut(queue, connected_clients, EventData(payload))
                 /\ nBroadcast' = nBroadcast + 1
                 /\ sent' = [c \in Clients |->
                              IF InList(connected_clients, c)
                              THEN Append(sent[c], EventData(payload)) ELSE sent[c]]
                 /\ lastOutcome' = "accepted"
    /\ lastComplete' = Head(tasks).complete
    /\ UNCHANGED <<connected_clients, pc, disconnected, written, nextId, injected,
                   removeRaised, regMark, removeCalls, exitPath, deregVars, chanVars,
                   clientVars>>

\* ------------------------------------------------------------- post_message
Messages == {"hello"}

\* POST /sse/messages: the message goes into every registered queue.
post_message(maxInject) ==
    /\ injected < maxInject
    /\ NoPutWaits(queue, connected_clients)
    /\ \E m \in Messages :
         queue' = FanOut(queue, connected_clients, MessagePayload(m))
    /\ injected' = injected + 1
    /\ UNCHANGED <<connected_clients, recent_event_ids, pc, disconnected, written,
                   tasks, nextId, removeRaised, nBroadcast, sent, lastOutcome,
                   regMark, removeCalls, exitPath, deregVars, chanVars,
                   clientVars, lastComplete>>

\* --------------------------------------------------------------- sse_stream
NewClientQueueNoAck == <<>>

\* queue = asyncio.Queue(); ...; await queue.put(json.dumps({"type": "test", ...}))
NewClientQueue == QueuePut(<<>>, AckPayload)

\* GET /stream up to `return StreamingResponse(event_generator(), ...)`: the queue
\* is created, appended to the registry and given the acknowledgment; the
\* generator object exists but none of its code has run.  Connections are
\* numbered in the order they are opened.
sse_stream(c) ==
    /\ pc[c] = "idle"
    /\ \A d \in Clients : d < c => pc[d] # "idle"
    /\ connected_clients' = Append(connected_clients, c)
    /\ queue' = [queue EXCEPT ![c] = NewClientQueue]
    /\ pc' = [pc EXCEPT ![c] = "response"]
    /\ regMark' = [regMark EXCEPT ![c] = nBroadcast]
    /\ UNCHANGED <<recent_event_ids, disconnected, written, tasks, nextId, injected,
                   removeRaised, nBroadcast, sent, lastOutcome, removeCalls, exitPath,
                   deregVars, chanVars,
                   clientVars, lastComplete>>

\* The response starts iterating its body: event_generator runs to its first
\* `await request.is_disconnected()`.
GeneratorStart(c) ==
    /\ pc[c] = "response"
    /\ pc' = [pc EXCEPT ![c] = "loop"]
    /\ UNCHANGED <<connected_clients, recent_event_ids, queue, disconnected, written,
                   tasks, nextId, injected, removeRaised, nBroadcast, sent,
                   lastOutcome, regMark, removeCalls, exitPath, deregVars, chanVars,
                   clientVars, lastComplete>>

\* The request task ends before the body is iterated (it is cancelled, or sending
\* the response head fails): the generator is dropped unstarted, and the try
\* block of event_generator is never entered.
AbortBeforeStart(c) ==
    /\ pc[c] = "response"
    /\ pc' = [pc EXCEPT ![c] = "aborted"]
    /\ UNCHANGED <<connected_clients, recent_event_ids, queue, disconnected, written,
                   tasks, nextId, injected, removeRaised, nBroadcast, sent,
                   lastOutcome, regMark, removeCalls, exitPath, deregVars, chanVars,
                   clientVars, lastComplete>>

\* The peer goes away: request.is_disconnected() answers True from now on.
TransportDisconnect(c) ==
    /\ pc[c] \in {"response", "loop", "get", "yield"}
    /\ ~disconnected[c]
    /\ disconnected' = [disconnected EXCEPT ![c] = TRUE]
    /\ UNCHANGED <<connected_clients, recent_event_ids, queue, pc, written, tasks,
                   nextId, injected, removeRaised, nBroadcast, sent, lastOutcome,
                   regMark, removeCalls, exitPath, deregVars, chanVars,
                   clientVars, lastComplete>>

\* ---------------------------------------------------------- event_generator
FinallySkipRemove(c, path) ==
    /\ pc' = [pc EXCEPT ![c] = "closed"]
    /\ exitPath' = [exitPath EXCEPT ![c] = path]
    /\ UNCHANGED <<connected_clients, removeRaised, removeCalls>>

\* finally: connected_clients.remove(queue)
Finally(c, path) ==
    LET r == ListRemove(connected_clients, c)
    IN  /\ connected_clients' = r.list
        /\ removeRaised' = (removeRaised \/ r.raised)
        /\ removeCalls' = [removeCalls EXCEPT ![c] = @ + 1]
        /\ pc' = [pc EXCEPT ![c] = "closed"]
        /\ exitPath' = [exitPath EXCEPT ![c] = path]

QueueGetKeep(q) == [item |-> Head(q), rest |-> q]

QueueGetLast(q) == [item |-> q[Len(q)], rest |-> SubSeq(q, 1, Len(q) - 1)]

\* asyncio.Queue.get on a non-empty queue: the oldest item
QueueGet(q) == [item |-> Head(q), rest |-> Tail(q)]

\* `data = await queue.get()` returns and `yield message` hands the frame over.
GetAndYield(c) ==
    /\ queue' = [queue EXCEPT ![c] = QueueGet(queue[c]).rest]
    /\ written' = [written EXCEPT ![c] = Append(@, QueueGet(queue[c]).item)]
    /\ pc' = [pc EXCEPT ![c] = "yield"]
    /\ UNCHANGED <<connected_clients, removeRaised, removeCalls, exitPath>>

\* The top of the loop: `await request.is_disconnected()` answers, and the
\* generator runs on to its next suspension.
Poll(c) ==
    /\ pc[c] = "loop"
    /\ \/ /\ disconnected[c]
          /\ Finally(c, "disconnect")
          /\ UNCHANGED <<queue, written>>
       \/ /\ ~disconnected[c]
          /\ queue[c] # <<>>
          /\ GetAndYield(c)
       \/ /\ ~disconnected[c]
          /\ queue[c] = <<>>
          /\ pc' = [pc EXCEPT ![c] = "get"]
          /\ UNCHANGED <<connected_clients, queue, written, removeRaised, removeCalls,
                         exitPath>>
    /\ UNCHANGED <<recent_event_ids, disconnected, tasks, nextId, injected, nBroadcast,
                   sent, lastOutcome, regMark, deregVars, chanVars, clientVars,
                   lastComplete>>

\* The generator, suspended in queue.get() on an empty queue, is woken by a put.
WakeGet(c) ==
    /\ pc[c] = "get"
    /\ queue[c] # <<>>
    /\ GetAndYield(c)
    /\ UNCHANGED <<recent_event_ids, disconnected, tasks, nextId, injected, nBroadcast,
                   sent, lastOutcome, regMark, deregVars, chanVars, clientVars,
                   lastComplete>>

\* The response asks for the next chunk: the generator resumes after `yield`.
Resume(c) ==
    /\ pc[c] = "yield"
    /\ pc' = [pc EXCEPT ![c] = "loop"]
    /\ UNCHANGED <<connected_clients, recent_event_ids, queue, disconnected, written,
                   tasks, nextId, injected, removeRaised, nBroadcast, sent,
                   lastOutcome, regMark, removeCalls, exitPath, deregVars, chanVars,
                   clientVars, lastComplete>>

\* An Exception raised in the loop (is_disconnected fails): `except Exception`
\* prints it, then the finally block runs.
PollRaises(c) ==
    /\ pc[c] = "loop"
    /\ Finally(c, "error")
    /\ UNCHANGED <<recent_event_ids, queue, disconnected, written, tasks, nextId,
                   injected, nBroadcast, sent, lastOutcome, regMark, deregVars, chanVars,
                   clientVars, lastComplete>>

\* CancelledError or GeneratorExit thrown into the generator where it is
\* suspended (the task is cancelled, or a failed write closes the generator):
\* `except Exception` does not catch it, the finally block runs.
Cancel(c) ==
    /\ pc[c] \in {"loop", "get", "yield"}
    /\ Finally(c, "cancelled")
    /\ UNCHANGED <<recent_event_ids, queue, disconnected, written, tasks, nextId,
                   injected, nBroadcast, sent, lastOutcome, regMark, deregVars, chanVars,
                   clientVars, lastComplete>>

\* ------------------------------------------------------ check_channel_status
\* The upstream connection is lost: channel.is_joined turns false.
ChannelDrop ==
    /\ channel_joined
    /\ channel_joined' = FALSE
    /\ UNCHANGED <<connected_clients, recent_event_ids, queue, pc, disconnected, written,
                   tasks, nextId, injected, removeRaised, nBroadcast, sent,
                   lastOutcome, regMark, removeCalls, exitPath, deregVars, lastCheck,
                   clientVars, lastComplete>>

CheckOutcomeFatal(joined, raises) ==
    IF raises THEN "stopped" ELSE IF joined THEN "joined" ELSE "not_joined"

\* One pass of the loop body: the try of lines 126-132, or the except of lines
\* 133-135 when reading the status raises; either way the pass ends in
\* asyncio.sleep(10) and the loop goes round.
CheckOutcome(joined, raises) ==
    IF raises THEN "error" ELSE IF joined THEN "joined" ELSE "not_joined"

\* check_channel_status, one pass of `while True`.
check_channel_status ==
    /\ lastCheck # "stopped"
    /\ \E raises \in BOOLEAN : lastCheck' = CheckOutcome(channel_joined, raises)
    /\ UNCHANGED <<connected_clients, recent_event_ids, queue, pc, disconnected, written,
                   tasks, nextId, injected, removeRaised, nBroadcast, sent,
                   lastOutcome, regMark, removeCalls, exitPath, deregVars,
                   channel_joined, clientVars, lastComplete>>

\* ------------------------------------------------------------ specification
Next ==
    \/ sync_callback(MaxIds, MaxPending, MaxIds, InsertShapes)
    \/ handle_realtime_event
    \/ post_message(MaxInject)
    \/ \E c \in Clients : sse_stream(c)
    \/ \E c \in Clients : GeneratorStart(c)
    \/ \E c \in Clients : AbortBeforeStart(c)
    \/ \E c \in Clients : TransportDisconnect(c)
    \/ \E c \in Clients : Poll(c)
    \/ \E c \in Clients : WakeGet(c)
    \/ \E c \in Clients : Resume(c)
    \/ \E c \in Clients : PollRaises(c)
    \/ \E c \in Clients : Cancel(c)

Spec == Init /\ [][Next]_vars


\* The dedup cache alone, driven past its limit: the upstream emits fresh
\* identifiers and retransmits the last one, each task runs before the next
\* notification arrives, no client is connected.
NextCache ==
    \/ sync_callback(MaxCacheIds, 1, 1, InsertShapes)
    \/ handle_realtime_event

SpecCache == Init /\ [][NextCache]_vars

\* ------------------------------------------- deregistering a connection twice
RECURSIVE SortedLists(_)
\* The registries of connections 1..n: the survivors, in the order they registered.
SortedLists(n) ==
    IF n = 0 THEN {<<>>}
    ELSE SortedLists(n - 1) \cup {Append(l, n) : l \in SortedLists(n - 1)}

InitDereg ==
    /\ connected_clients \in SortedLists(MaxDeregClients)
    /\ deregInit = connected_clients
    /\ deregTarget \in Range(connected_clients)
    /\ recent_event_ids = {}
    /\ queue = [c \in Clients |-> <<>>]
    /\ pc = [c \in Clients |-> "idle"]
    /\ disconnected = [c \in Clients |-> FALSE]
    /\ written = [c \in Clients |-> <<>>]
    /\ tasks = <<>>
    /\ nextId = 0
    /\ injected = 0
    /\ removeRaised = FALSE
    /\ nBroadcast = 0
    /\ sent = [c \in Clients |-> <<>>]
    /\ lastOutcome = "none"
    /\ regMark = [c \in Clients |-> 0]
    /\ removeCalls = [c \in Clients |-> 0]
    /\ exitPath = [c \in Clients |-> "none"]
    /\ deregPhase = 0
    /\ deregFirst = <<>>
    /\ channel_joined = TRUE
    /\ lastCheck = "none"
    /\ lastComplete = TRUE
    /\ env_url = "unset"
    /\ env_key = "unset"
    /\ clientModule = "none"
    /\ clientPc = "idle"
    /\ clientResult = "none"

\* connected_clients.remove(queue), for the same queue a first and a second time.
Deregister ==
    /\ deregPhase < 2
    /\ LET r == ListRemove(connected_clients, deregTarget)
       IN  /\ connected_clients' = r.list
           /\ removeRaised' = (removeRaised \/ r.raised)
           /\ deregFirst' = IF deregPhase = 0 THEN r.list ELSE deregFirst
    /\ deregPhase' = deregPhase + 1
    /\ UNCHANGED <<recent_event_ids, queue, pc, disconnected, written, tasks, nextId,
                   injected, nBroadcast, sent, lastOutcome, regMark, removeCalls,
                   exitPath, deregInit, deregTarget, chanVars, clientVars, lastComplete>>

SpecDereg == InitDereg /\ [][Deregister]_vars


\* ============================================================== properties
MaxRawChanges == 2

\* The relay fed with notifications of every form: clients register and drain
\* their queues, none leaves.
NextRaw ==
    \/ sync_callback_any(MaxRawChanges, 1, MaxRawChanges, MalformedForms)
    \/ handle_realtime_event
    \/ \E c \in Clients : sse_stream(c)
    \/ \E c \in Clients : GeneratorStart(c)
    \/ \E c \in Clients : Poll(c)
    \/ \E c \in Clients : WakeGet(c)
    \/ \E c \in Clients : Resume(c)

SpecRaw == Init /\ [][NextRaw]_vars

MaxRecordChanges == 1

\* The relay fed with well-formed notifications of every record form.
NextRecord ==
    \/ sync_callback_any(MaxRecordChanges, 1, MaxRecordChanges, RecordForms)
    \/ handle_realtime_event
    \/ \E c \in Clients : sse_stream(c)
    \/ \E c \in Clients : GeneratorStart(c)
    \/ \E c \in Clients : Poll(c)
    \/ \E c \in Clients : WakeGet(c)
    \/ \E c \in Clients : Resume(c)

SpecRecord == Init /\ [][NextRecord]_vars

InRegistry(c) == InList(connected_clients, c)

\* Everything that was ever put in c's queue, in the order it was put.
Stream(c) == written[c] \o queue[c]

IsEvent(p) == p.kind = "event"

Events(s) == SelectSeq(s, IsEvent)

\* The change events of s that come from the notification with identifier i.
CountId(s, i) == Cardinality({k \in DOMAIN s : IsEvent(s[k]) /\ s[k].timestamp = i})

IsPrefix(s, t) == Len(s) <= Len(t) /\ \A k \in DOMAIN s : s[k] = t[k]

\* c registered before the first broadcast and is still registered.
RegisteredThroughout(c) == InRegistry(c) /\ regMark[c] = 0

\* This step performs a broadcast.
BroadcastStep == nBroadcast' = nBroadcast + 1

Running(c) == pc[c] \in {"response", "loop", "get", "yield"}

\* This step runs one handle_realtime_event task.
HandlerStep == tasks # <<>> /\ tasks' = Tail(tasks)

\* C1: while fewer identifiers than the cache limit have been emitted (the cache
\* was never full, so it holds the identifiers handled so far), no client is
\* ever given two change events for one identifier, and a client registered
\* during the whole sequence has exactly one change event for every identifier
\* handled so far.
C1_OnePayloadPerIdentifier ==
    nextId < CacheLimit =>
        \A c \in Clients : \A i \in 1..nextId :
            /\ CountId(Stream(c), i) <= 1
            /\ RegisteredThroughout(c) =>
                 CountId(Stream(c), i) = IF i \in recent_event_ids THEN 1 ELSE 0

\* A repeated identifier has just been discarded, and a client registered
\* throughout holds the one change event of that identifier.
C1_Witness ==
    /\ lastOutcome = "duplicate"
    /\ nextId = 1
    /\ \E c \in Clients : RegisteredThroughout(c) /\ CountId(Stream(c), 1) = 1

\* C2: a broadcast appends its payload once to the queue of every client in the
\* registry and leaves every other queue alone; a client that registers later
\* starts with a queue that holds no change event.
C2_BroadcastOncePerRegistered ==
    [][ /\ BroadcastStep =>
            \A c \in Clients :
                queue'[c] = IF InRegistry(c)
                            THEN Append(queue[c], EventData(Head(tasks)))
                            ELSE queue[c]
        /\ \A c \in Clients :
             (pc[c] = "idle" /\ pc'[c] # "idle") => Events(queue'[c]) = <<>> ]_vars

\* One broadcast was made with one client registered; a second client registered
\* after it and has no change event.
C2_Witness ==
    /\ nBroadcast = 1
    /\ \E c, d \in Clients :
         /\ InRegistry(c) /\ regMark[c] = 0 /\ Len(Events(Stream(c))) = 1
         /\ InRegistry(d) /\ regMark[d] = 1 /\ Events(Stream(d)) = <<>>

\* C3: the change events written to a client are, in order, the first of the
\* broadcasts performed while it was registered.
C3_DeliveryOrderIsBroadcastOrder ==
    \A c \in Clients : IsPrefix(Events(written[c]), sent[c])

\* A client has been written two change events, with an injected message too.
C3_Witness ==
    \E c \in Clients :
        /\ Len(Events(written[c])) = 2
        /\ \E k \in DOMAIN written[c] : written[c][k].kind = "message"

\* C4: the dedup cache never holds more identifiers than its limit.
C4_CacheWithinLimit == Cardinality(recent_event_ids) <= CacheLimit

\* The cache is full.
C4_Witness == Cardinality(recent_event_ids) = CacheLimit

\* C5: handling a new identifier while the cache holds CacheLimit identifiers
\* leaves the cache holding exactly that identifier.
C5_ClearedBeforeInsert ==
    [][ ( /\ HandlerStep
          /\ ~EventIdRaises(Head(tasks))
          /\ Cardinality(recent_event_ids) = CacheLimit
          /\ EventId(Head(tasks)) \notin recent_event_ids )
        => recent_event_ids' = {EventId(Head(tasks))} ]_vars

\* C6: whatever a connection's queue was given starts with the acknowledgment.
C6_AcknowledgmentFirst ==
    \A c \in Clients :
        pc[c] # "idle" => Stream(c) # <<>> /\ Head(Stream(c)) = AckPayload

\* A client has been written frames and its stream holds a change event and an
\* injected message after the acknowledgment.
C6_Witness ==
    \E c \in Clients :
        /\ written[c] # <<>>
        /\ \E k \in DOMAIN Stream(c) : Stream(c)[k].kind = "event"
        /\ \E k \in DOMAIN Stream(c) : Stream(c)[k].kind = "message"

\* C7: a broadcast performed after a client's transport disconnected, the
\* client's generator being suspended in the dequeue on an empty queue, puts
\* nothing in that client's queue.
C7_BroadcastSkipsDisconnected ==
    [][ BroadcastStep =>
          \A c \in Clients :
              (disconnected[c] /\ pc[c] = "get" /\ queue[c] = <<>>) => queue'[c] = <<>> ]_vars

\* C8: a generator that has left its loop removed its queue from the registry
\* with exactly one call of remove, which did not raise; no queue is removed
\* by anything else.
C8_RemovedExactlyOnce ==
    /\ ~removeRaised
    /\ \A c \in Clients :
         /\ removeCalls[c] <= 1
         /\ pc[c] = "closed" => removeCalls[c] = 1 /\ ~InRegistry(c)
         /\ removeCalls[c] = 1 => pc[c] = "closed"
         /\ (pc[c] \in {"loop", "get", "yield"}) => InRegistry(c)

\* Two generators have ended, one by detecting the disconnect and one by being
\* cancelled.
C8_Witness ==
    \E c, d \in Clients :
        /\ pc[c] = "closed" /\ exitPath[c] = "disconnect"
        /\ pc[d] = "closed" /\ exitPath[d] = "cancelled"

\* C9: a connection's queue is in the registry exactly while its request task
\* is alive and has not reached the finally block.
C9_RegisteredIffRunning ==
    \A c \in Clients : InRegistry(c) <=> Running(c)

\* C10: after the second deregistration of a connection no error was raised,
\* the registry is what the first deregistration left, and every other
\* connection is still registered.
C10_DeregisterIdempotent ==
    deregPhase = 2 =>
        /\ ~removeRaised
        /\ connected_clients = deregFirst
        /\ Range(connected_clients) = Range(deregInit) \ {deregTarget}

\* ------------------------------------------------------------- C11 .. C20
\* The notification raises inside the try of handle_realtime_event.
HandlerRaises(payload) == EventIdRaises(payload) \/ ~payload.complete

\* C11: a notification that raises while it is processed (its 'ids' list is empty,
\* or a key of 'data' is missing) puts nothing in any queue and leaves the channel
\* joined; whatever was handled before, a well-formed notification whose identifier
\* is not in the cache is put once in the queue of every registered client.
C11_ExceptionContained ==
    [][ HandlerStep =>
          LET payload == Head(tasks)
          IN  /\ HandlerRaises(payload) =>
                    /\ queue' = queue
                    /\ channel_joined' = channel_joined
                    /\ connected_clients' = connected_clients
              /\ ( /\ ~HandlerRaises(payload)
                   /\ payload.hasIds
                   /\ payload.ids[1] \notin recent_event_ids ) =>
                    \A c \in Clients :
                        InRegistry(c) =>
                            queue'[c] = Append(queue[c],
                                               Payload("event", payload.type, "row",
                                                       payload.commit_timestamp, ""))
        ]_vars

\* The notification of change 1 raised after its identifier was recorded, and
\* the later well-formed notification of change 2 reached both clients.
C11_Witness ==
    /\ 1 \in recent_event_ids
    /\ lastOutcome = "accepted"
    /\ channel_joined
    /\ \A c \in Clients :
         /\ RegisteredThroughout(c)
         /\ CountId(Stream(c), 1) = 0
         /\ CountId(Stream(c), 2) = 1

\* This step ends c's generator: its finally block has run.
CloseStep(c) == pc[c] # "closed" /\ pc'[c] = "closed"

\* C12: the step that ends one client's generator (an exception, a cancellation
\* after a failed write, a detected disconnect) takes that client's queue out of
\* the registry and changes nothing else: the other clients keep their place in
\* the registry, their queues and what was written to them, the cache and the
\* pending notifications are as before, the channel stays joined; and with a
\* client closed, a notification with a new identifier is still put in the queue
\* of every client that remains registered.
C12_CloseAffectsOnlyThatClient ==
    [][ /\ \A c \in Clients :
             CloseStep(c) =>
                /\ ~InList(connected_clients', c)
                /\ \A d \in Clients \ {c} :
                     /\ InList(connected_clients', d) = InList(connected_clients, d)
                     /\ queue'[d] = queue[d]
                     /\ written'[d] = written[d]
                     /\ pc'[d] = pc[d]
                /\ recent_event_ids' = recent_event_ids
                /\ tasks' = tasks
                /\ channel_joined' = channel_joined
        /\ ( /\ HandlerStep
             /\ \E c \in Clients : pc[c] = "closed"
             /\ Head(tasks).ids[1] \notin recent_event_ids ) =>
                \A d \in Clients :
                    InRegistry(d) =>
                        /\ Len(queue'[d]) = Len(queue[d]) + 1
                        /\ queue'[d][Len(queue'[d])].kind = "event"
                        /\ queue'[d][Len(queue'[d])].timestamp = Head(tasks).ids[1]
      ]_vars

\* Both clients were registered from the start; one was ended by an exception or
\* a cancellation, and the change event broadcast after that is in the stream of
\* the other only.
C12_Witness ==
    \E c, d \in Clients :
        /\ c # d
        /\ pc[c] = "closed"
        /\ exitPath[c] \in {"error", "cancelled"}
        /\ regMark[c] = 0
        /\ RegisteredThroughout(d)
        /\ lastOutcome = "accepted"
        /\ CountId(Stream(c), 1) = 1 /\ CountId(Stream(c), 2) = 0
        /\ CountId(Stream(d), 1) = 1 /\ CountId(Stream(d), 2) = 1

\* The record of the change event that this broadcast puts in c's queue.
DeliveredRecord(c) == queue'[c][Len(queue'[c])].record

\* C13: the change event of an accepted notification carries the
\* notification's record whenever the notification has one, the empty mapping
\* included, and its old_record only when it has no record.
C13_RecordWheneverPresent ==
    [][ BroadcastStep =>
          LET data == Head(tasks)
          IN  \A c \in Clients :
                  InRegistry(c) =>
                      DeliveredRecord(c) = IF data.record \in {"absent", "null"}
                                           THEN DictGet(data.old_record)
                                           ELSE data.record
      ]_vars

\* C14: whatever a client's queue holds, and so however long a client has not
\* been reading, a pending notification can be handled to its end at once, and
\* every other client's generator can take its next step: the poll at the top
\* of the loop, or the dequeue as soon as its own queue holds a payload.
C14_StalledClientBlocksNobody ==
    /\ tasks # <<>> => ENABLED handle_realtime_event
    /\ \A d \in Clients :
         /\ pc[d] = "loop" => ENABLED Poll(d)
         /\ (pc[d] = "get" /\ queue[d] # <<>>) => ENABLED WakeGet(d)
         /\ pc[d] = "yield" => ENABLED Resume(d)

\* One client never read anything, and its queue holds everything put since it
\* registered: the acknowledgment, both change events and the injected message;
\* the other client was written both change events meanwhile.
C14_Witness ==
    \E s, d \in Clients :
        /\ s # d
        /\ RegisteredThroughout(s)
        /\ written[s] = <<>>
        /\ Len(queue[s]) = 2 + MaxIds
        /\ nBroadcast = MaxIds
        /\ Len(Events(written[d])) = MaxIds

\* ---------------------------------------------------- the relay, scheduled
MaxLiveIds == 1

NextLive ==
    \/ sync_callback(MaxLiveIds, 1, MaxLiveIds, InsertShapes)
    \/ handle_realtime_event
    \/ \E c \in Clients : sse_stream(c)
    \/ \E c \in Clients : GeneratorStart(c)
    \/ \E c \in Clients : TransportDisconnect(c)
    \/ \E c \in Clients : Poll(c)
    \/ \E c \in Clients : WakeGet(c)
    \/ \E c \in Clients : Resume(c)
    \/ \E c \in Clients : Cancel(c)

\* The event loop runs every task that is ready: a created handle_realtime_event
\* task runs, a generator whose poll has answered or whose queue.get() can return
\* goes on, and the response keeps asking the generator for its next chunk.  The
\* upstream, the clients' transports and cancellations are not scheduled by the
\* loop and get no fairness.
LiveFairness ==
    /\ WF_vars(handle_realtime_event)
    /\ \A c \in Clients :
         /\ WF_vars(GeneratorStart(c))
         /\ WF_vars(Poll(c))
         /\ WF_vars(WakeGet(c))
         /\ WF_vars(Resume(c))

SpecLive == Init /\ [][NextLive]_vars /\ LiveFairness

\* C15: a client whose transport has disconnected while its generator is in the
\* loop eventually has its generator closed and its queue out of the registry,
\* whether or not another payload is ever put in its queue.
C15_DisconnectLeadsToClosed ==
    \A c \in Clients :
        (disconnected[c] /\ pc[c] \in {"loop", "get", "yield"})
            ~> (pc[c] = "closed" /\ ~InRegistry(c))

\* This step puts something in c's queue.
PutStep(c) == Len(queue'[c]) > Len(queue[c])

\* C16: a step that writes to a client writes the payload at the head of its
\* queue and takes it out of the queue, so no payload is written twice; once the
\* generator is closed nothing more is written to the client and its queue is
\* left as it is; the closing step puts nothing in any queue, and a queue only
\* ever grows by the acknowledgment at registration, a broadcast or an injection.
C16_AtMostOnceNoRedelivery ==
    [][ \A c \in Clients :
          /\ written'[c] # written[c] =>
                /\ queue[c] # <<>>
                /\ written'[c] = Append(written[c], Head(queue[c]))
                /\ queue'[c] = Tail(queue[c])
          /\ pc[c] = "closed" =>
                /\ written'[c] = written[c]
                /\ queue'[c] = queue[c]
                /\ pc'[c] = "closed"
          /\ CloseStep(c) => queue' = queue /\ written' = written
          /\ PutStep(c) =>
                \/ BroadcastStep
                \/ injected' = injected + 1
                \/ pc[c] = "idle" /\ queue'[c] = <<AckPayload>>
      ]_vars

\* A client was closed with the first change event still in its queue, after
\* the acknowledgment alone was written to it; the second broadcast was made
\* after that and the other client was written both change events.
C16_Witness ==
    \E c, d \in Clients :
        /\ c # d
        /\ pc[c] = "closed"
        /\ written[c] = <<AckPayload>>
        /\ CountId(queue[c], 1) = 1
        /\ CountId(queue[c], 2) = 0
        /\ nBroadcast = 2
        /\ RegisteredThroughout(d)
        /\ Len(Events(written[d])) = 2

\* ------------------------------------------------- the relay with injections
MaxInjections == 2

NextInject ==
    \/ sync_callback(1, 1, 1, InsertShapes)
    \/ handle_realtime_event
    \/ post_message(MaxInjections)
    \/ \E c \in Clients : sse_stream(c)
    \/ \E c \in Clients : GeneratorStart(c)
    \/ \E c \in Clients : Poll(c)
    \/ \E c \in Clients : WakeGet(c)
    \/ \E c \in Clients : Resume(c)
    \/ \E c \in Clients : Cancel(c)

SpecInject == Init /\ [][NextInject]_vars

\* This step is a POST /sse/messages.
InjectStep == injected' = injected + 1

\* The injected messages in s.
Injected(s) == {k \in DOMAIN s : s[k].kind = "message"}

\* C17: an injection puts the posted message, as it was posted, once at the end
\* of the queue of every registered client and in no other queue, whatever was
\* injected or broadcast before; it changes neither the cache nor the registry
\* nor the pending notifications, and is not counted as a broadcast.
C17_InjectionReachesEveryClient ==
    [][ InjectStep =>
          /\ \E m \in Messages :
                \A c \in Clients :
                    queue'[c] = IF InRegistry(c)
                                THEN Append(queue[c], Payload("message", "", "absent", 0, m))
                                ELSE queue[c]
          /\ recent_event_ids' = recent_event_ids
          /\ connected_clients' = connected_clients
          /\ tasks' = tasks
          /\ nBroadcast' = nBroadcast
          /\ written' = written
      ]_vars

\* The same message was injected twice after a change event was broadcast: a
\* client registered throughout has it twice, and the cache holds the
\* identifier of the change event as before.
C17_Witness ==
    /\ injected = 2
    /\ recent_event_ids = {1}
    /\ \E c \in Clients :
         /\ RegisteredThroughout(c)
         /\ Cardinality(Injected(Stream(c))) = 2
         /\ \A k \in Injected(Stream(c)) : Stream(c)[k].text = "hello"

\* ------------------------------------------- the relay and the status checker
NextChannel ==
    \/ sync_callback(1, 1, 1, InsertShapes)
    \/ handle_realtime_event
    \/ ChannelDrop
    \/ check_channel_status
    \/ \E c \in Clients : sse_stream(c)
    \/ \E c \in Clients : GeneratorStart(c)
    \/ \E c \in Clients : Poll(c)
    \/ \E c \in Clients : WakeGet(c)
    \/ \E c \in Clients : Resume(c)

SpecChannel == Init /\ [][NextChannel]_vars

\* This step is a pass of check_channel_status with a new finding.
CheckStep == lastCheck' # lastCheck

C20_FailedIdentifierBlocksRetransmission ==
    [][ HandlerStep =>
          LET payload == Head(tasks)
              hasId == payload.hasIds /\ payload.ids # <<>>
          IN  /\ ( /\ hasId
                   /\ ~payload.complete
                   /\ payload.ids[1] \notin recent_event_ids ) =>
                     /\ payload.ids[1] \in recent_event_ids'
                     /\ queue' = queue
              /\ ( /\ hasId
                   /\ payload.complete
                   /\ payload.ids[1] \in recent_event_ids ) =>
                     /\ queue' = queue
                     /\ recent_event_ids' = recent_event_ids
                     /\ nBroadcast' = nBroadcast
      ]_vars

\* Change 1 was first reported with a key missing, then again well-formed with
\* the same identifier: the retransmission was discarded as a duplicate, and no
\* client, both registered all along, has a change event for it.
C20_Witness ==
    /\ nextId = 1
    /\ recent_event_ids = {1}
    /\ lastOutcome = "duplicate"
    /\ lastComplete
    /\ nBroadcast = 0
    /\ \A c \in Clients : RegisteredThroughout(c) /\ Events(Stream(c)) = <<>>

\* ------------------------------------------------------ get_supabase_client
\* An environment variable is unset, set to the empty string, set to a value the
\* supabase library accepts, or set to one it may reject.
EnvValues == {"unset", "empty", "good", "bad"}

\* os.getenv(name, default); os.getenv(name) gives None for an unset variable.
Getenv(v, default) == IF v = "unset" THEN default ELSE v

\* SupabaseConfig(url=..., key=...): both fields are required strings, so the
\* validation raises (a ValueError) only for a value that is not a string.
SupabaseConfigRaises(url, key) == url = "null" \/ key = "null"

\* `not x` for a string or None
Not(v) == v \in {"null", "empty"}

\* What create_client(url, key) of the supabase library can do: it raises for an
\* empty url or key, gives a client for accepted values, and for other values
\* raises or gives a client depending on the library's checks.
CreateClientOutcomes(url, key) ==
    IF Not(url) \/ Not(key) THEN {"Exception"}
    ELSE IF url = "good" /\ key = "good" THEN {"client"}
    ELSE {"Exception", "client"}

\* The process starts with some environment and calls one of the two
\* get_supabase_client functions.
CallGetSupabaseClient ==
    /\ clientPc = "idle"
    /\ env_url' \in EnvValues
    /\ env_key' \in EnvValues
    /\ clientModule' \in {"supabase_client", "config"}
    /\ clientPc' = "called"
    /\ UNCHANGED clientResult
    /\ UNCHANGED <<connected_clients, recent_event_ids, queue, pc, disconnected, written,
                   tasks, nextId, injected, removeRaised, nBroadcast, sent,
                   lastOutcome, regMark, removeCalls, exitPath, deregVars, chanVars,
                   lastComplete>>

\* supabase_client.get_supabase_client, lines 54-61: the config is built from
\* os.getenv(..., ""); a ValueError of the validation is logged and raised again.
SupabaseConfigStep ==
    /\ clientPc = "called"
    /\ clientModule = "supabase_client"
    /\ IF SupabaseConfigRaises(Getenv(env_url, "empty"), Getenv(env_key, "empty"))
       THEN clientPc' = "done" /\ clientResult' = "ValueError"
       ELSE clientPc' = "config" /\ UNCHANGED clientResult
    /\ UNCHANGED <<env_url, env_key, clientModule>>
    /\ UNCHANGED <<connected_clients, recent_event_ids, queue, pc, disconnected, written,
                   tasks, nextId, injected, removeRaised, nBroadcast, sent,
                   lastOutcome, regMark, removeCalls, exitPath, deregVars, chanVars,
                   lastComplete>>

\* supabase_client.get_supabase_client, lines 64-70: the client is returned, any
\* Exception of create_client is logged and None is returned.
CreateClientStep ==
    /\ clientPc = "config"
    /\ \E outcome \in CreateClientOutcomes(Getenv(env_url, "empty"),
                                           Getenv(env_key, "empty")) :
         clientResult' = IF outcome = "Exception" THEN "None" ELSE outcome
    /\ clientPc' = "done"
    /\ UNCHANGED <<env_url, env_key, clientModule>>
    /\ UNCHANGED <<connected_clients, recent_event_ids, queue, pc, disconnected, written,
                   tasks, nextId, injected, removeRaised, nBroadcast, sent,
                   lastOutcome, regMark, removeCalls, exitPath, deregVars, chanVars,
                   lastComplete>>

\* config.get_supabase_client: ValueError when a variable is unset or empty,
\* else whatever create_client gives or raises.
config_get_supabase_client ==
    /\ clientPc = "called"
    /\ clientModule = "config"
    /\ IF Not(Getenv(env_url, "null")) \/ Not(Getenv(env_key, "null"))
       THEN clientResult' = "ValueError"
       ELSE clientResult' \in CreateClientOutcomes(env_url, env_key)
    /\ clientPc' = "done"
    /\ UNCHANGED <<env_url, env_key, clientModule>>
    /\ UNCHANGED <<connected_clients, recent_event_ids, queue, pc, disconnected, written,
                   tasks, nextId, injected, removeRaised, nBroadcast, sent,
                   lastOutcome, regMark, removeCalls, exitPath, deregVars, chanVars,
                   lastComplete>>

\* server.py, lines 36-38: the exception of the call aborts the import; a falsy
\* result raises RuntimeError; with a client the server goes on to start.
ServerStartup ==
    /\ clientPc = "done"
    /\ clientPc' = IF clientResult = "client" THEN "started"
                   ELSE IF clientResult = "None" THEN "RuntimeError"
                   ELSE "aborted"
    /\ UNCHANGED <<env_url, env_key, clientModule, clientResult>>
    /\ UNCHANGED <<connected_clients, recent_event_ids, queue, pc, disconnected, written,
                   tasks, nextId, injected, removeRaised, nBroadcast, sent,
                   lastOutcome, regMark, removeCalls, exitPath, deregVars, chanVars,
                   lastComplete>>

NextClient ==
    \/ CallGetSupabaseClient
    \/ SupabaseConfigStep
    \/ CreateClientStep
    \/ config_get_supabase_client
    \/ ServerStartup

SpecClient == Init /\ [][NextClient]_vars

\* C19: when SUPABASE_PROJECT_URL or SUPABASE_SERVICE_ROLE_KEY is not set, the
\* call of get_supabase_client of supabase_client.py ends by raising ValueError:
\* it returns neither a client nor None.
C19_MissingEnvRaisesValueError ==
    ( /\ clientModule = "supabase_client"
      /\ clientPc \in {"done", "started", "RuntimeError", "aborted"}
      /\ (env_url = "unset" \/ env_key = "unset") )
        => clientResult = "ValueError"

\* --------------------------------- the relay, every change reported once
MaxNullChanges == 3

\* The upstream reports each change once, with one identifier, without the key
\* 'ids' or with an empty 'ids' list.
NextNull ==
    \/ sync_callback_any(MaxNullChanges, 1, 0, IdentifierForms)
    \/ handle_realtime_event
    \/ \E c \in Clients : sse_stream(c)
    \/ \E c \in Clients : GeneratorStart(c)
    \/ \E c \in Clients : Poll(c)
    \/ \E c \in Clients : WakeGet(c)
    \/ \E c \in Clients : Resume(c)

SpecNull == Init /\ [][NextNull]_vars

\* C21: a notification without the key 'ids' is handled under the identifier
\* None: the first one that is handled puts None in the cache and is broadcast,
\* and while None is in the cache every other one is discarded, whatever change
\* it reports, with no queue and not the cache changed; a notification whose
\* 'ids' list is empty ends in the exception branch, with no queue and not the
\* cache changed.
C21_NoIdentifierSharesNone ==
    [][ HandlerStep =>
          LET payload == Head(tasks)
          IN  /\ (~payload.hasIds /\ payload.complete /\ NoneId \notin recent_event_ids) =>
                    /\ NoneId \in recent_event_ids'
                    /\ BroadcastStep
              /\ (~payload.hasIds /\ NoneId \in recent_event_ids) =>
                    /\ queue' = queue
                    /\ recent_event_ids' = recent_event_ids
                    /\ nBroadcast' = nBroadcast
                    /\ lastOutcome' = "duplicate"
              /\ (payload.hasIds /\ payload.ids = <<>>) =>
                    /\ queue' = queue
                    /\ recent_event_ids' = recent_event_ids
                    /\ nBroadcast' = nBroadcast
                    /\ lastOutcome' = "error"
      ]_vars

\* Two changes were reported, each once and neither with the key 'ids': the
\* first was broadcast, the second was discarded as a duplicate, and both
\* clients, registered all along, hold the change event of the first only.
C21_Witness ==
    /\ nextId = 2
    /\ tasks = <<>>
    /\ recent_event_ids = {NoneId}
    /\ lastOutcome = "duplicate"
    /\ nBroadcast = 1
    /\ \A c \in Clients :
         /\ RegisteredThroughout(c)
         /\ CountId(Stream(c), 1) = 1
         /\ CountId(Stream(c), 2) = 0

\* C22: in every state, the change events a client was ever given are exactly
\* those of the broadcasts made while its queue was in the registry, so each
\* broadcast reached every client registered when it was made; two clients
\* that registered between the same two broadcasts and are both still
\* registered were given the same change events.
C22_BroadcastAllOrNothing ==
    /\ \A c \in Clients : Events(Stream(c)) = sent[c]
    /\ \A c, d \in Clients :
         (InRegistry(c) /\ InRegistry(d) /\ regMark[c] = regMark[d]) =>
             Events(Stream(c)) = Events(Stream(d))

\* Two broadcasts were made; one client was registered for both and was given
\* both change events, the other registered between them and was given the
\* second only.
C22_Witness ==
    /\ nBroadcast = 2
    /\ tasks = <<>>
    /\ \E c, d \in Clients :
         /\ RegisteredThroughout(c)
         /\ Len(Events(Stream(c))) = 2
         /\ InRegistry(d)
         /\ regMark[d] = 1
         /\ Len(Events(Stream(d))) = 1
         /\ CountId(Stream(d), 2) = 1

\* c's queue was in the registry and has been removed from it.
Deregistered(c) == pc[c] # "idle" /\ ~InRegistry(c)

\* C23: once a client's queue has been removed from the registry, no step puts
\* anything in it or takes anything out of it, and it is not registered again.
C23_QueueFrozenAfterDeregistration ==
    [][ \A c \in Clients :
          Deregistered(c) =>
              /\ queue'[c] = queue[c]
              /\ ~InList(connected_clients', c)
      ]_vars

\* A client was deregistered with the first change event still in its queue;
\* the message injected and the change event broadcast after that are in the
\* other client's stream and not in its queue.
C23_Witness ==
    \E c, d \in Clients :
        /\ c # d
        /\ Deregistered(c)
        /\ regMark[c] = 0
        /\ Events(queue[c]) # <<>>
        /\ Injected(Stream(c)) = {}
        /\ CountId(Stream(c), 1) = 1
        /\ CountId(Stream(c), 2) = 0
        /\ RegisteredThroughout(d)
        /\ Len(Stream(d)) = 4
        /\ Stream(d)[3].kind = "message"
        /\ CountId(Stream(d), 2) = 1

====
